---- MODULE Spec2Model ----
(***************************************************************************)
(* Model of the WGSL playground (src/src/main.rs): the hot-reload pipeline *)
(* state machine and the winit event loop of Playground::run.              *)
(*                                                                         *)
(* Threads: the loop thread (startup code of run, then one event handler   *)
(* at a time), the notify watcher thread (the callback of listen) and the  *)
(* editor that rewrites the shader file.  The wgpu uncaptured-error        *)
(* callback runs inside the wgpu call that raises the error.               *)
(***************************************************************************)
EXTENDS Integers, Sequences, FiniteSets, TLC

\* ------------------------------------------------------------------ bounds
\* user events the watcher and the draw path may leave pending in the proxy queue
MaxPending == 2
\* largest window dimension, in model pixels
MaxDim == 2
\* the clock saturates at this many frame intervals
MaxTime == 1
\* largest window dimension where only the cursor moves
MaxMouse == 4

\* ------------------------------------------------------- program constants
\* with_inner_size(PhysicalSize::new(600, 600)), scaled to model pixels
InitSize == 2
\* frame_time = 16_666_667 ns, one tick of the model clock
FrameTime == 1
\* window.scale_factor() of the display the window is on
ScaleFactor == 2

\* ------------------------------------------------------------ shader texts
\* A, B: fragment shaders that compile and link.
\* X: WGSL that does not compile (create_shader_module raises an error and
\*    create_render_pipeline raises a second one for the invalid module).
Texts == {"A", "B", "X"}

NoPipeline == "none"

\* wgpu errors raised while create_pipeline runs on text t, in call order:
\* <<kind, carries the "note: label = `Fragment shader`" marker>>
BuildErrors(t) ==
  CASE t = "X" -> << <<"Validation", TRUE>>, <<"Validation", FALSE>> >>
    [] OTHER   -> << >>

\* a pipeline handle is named by the text it was built from
Valid(p) == p \in Texts /\ BuildErrors(p) = << >>

\* notify event kinds delivered to the watcher callback; "Err" is res = Err(_)
FsKinds == {"ModifyName", "ModifyData", "Access", "Err"}

NoEvent == "none"

\* no error is waiting for the callback
NoError == <<"none", FALSE>>

UserEvents == {"Reload", "WGPUError"}

Dims == 0..MaxDim

VARIABLES
  pc,              \* position of the loop thread
  file,            \* the shader file: [text, readable]
  watcher_log,     \* the lines the watcher closure has printed
  gpu_error,       \* the error wgpu is about to pass to the uncaptured-error callback
  fs_event,        \* the notify result the watcher thread has yet to pass to its callback
  queue,           \* EventLoopProxy<UserEvents>: user events sent, not yet handled
  error_state,     \* run: let mut error_state
  render_pipeline, \* playground.render_pipeline
  frag_wgsl,       \* create_pipeline: the text its read loop broke with
  redraw,          \* a RedrawRequested is pending (window.request_redraw was called)
  inner_size,      \* window.inner_size()
  cursor,          \* the cursor position of the last CursorMoved, in physical pixels
  surface_config,  \* playground.surface_config: <<width, height>>
  uniforms,        \* playground.uniforms
  last_frame_time, \* run: let mut last_frame_time
  out              \* what the last step of the loop thread did

vars == <<pc, file, fs_event, watcher_log, gpu_error, queue, error_state, render_pipeline,
          frag_wgsl, redraw,
          inner_size, cursor, surface_config, uniforms, last_frame_time, out>>

\* ---------------------------------------------------------------- helpers
Min(a, b) == IF a < b THEN a ELSE b
Max(a, b) == IF a < b THEN b ELSE a

\* Instant::now() / instant.elapsed(): a monotonic clock, at least `least`
ClockReads(least) ==
  {t \in 0..MaxTime : t >= Min(MaxTime, Max(least, Max(uniforms.time, last_frame_time)))}

\* handler: the handler the step belongs to; paused: error_state when that
\* handler began; request_redraw: it called window.request_redraw(); draw: the
\* pipeline of the draw it submitted
Effect(h, ps, rq, dr) == [handler |-> h, paused |-> ps, request_redraw |-> rq, draw |-> dr]

\* mutant: the event is sent only where the description is printed
on_uncaptured_error_LabelOnly(q, error) ==
  IF error = <<"Validation", TRUE>> THEN Append(q, "WGPUError") ELSE q

\* mutant: the callback logs the error and sends nothing
on_uncaptured_error_Silent(q, error) == q

\* device.on_uncaptured_error callback: one WGPUError event per invocation
on_uncaptured_error(q, error) == Append(q, "WGPUError")

RECURSIVE RaiseAll(_, _)
RaiseAll(q, errors) ==
  IF errors = << >> THEN q
  ELSE RaiseAll(on_uncaptured_error(q, Head(errors)), Tail(errors))

\* Playground::create_pipeline after its read loop: always Ok(handle)
create_pipeline(text) == [ok |-> TRUE, pipeline |-> text]

\* Playground::recreate_pipeline: swap on Ok, keep on Err
recreate_pipeline(current, result) ==
  IF result.ok THEN result.pipeline ELSE current

RECURSIVE GCD(_, _)
GCD(a, b) == IF b = 0 THEN a ELSE GCD(b, a % b)

Abs(n) == IF n < 0 THEN -n ELSE n

\* the real number n/d (d > 0) as a fraction in lowest terms
Frac(n, d) == LET g == GCD(Abs(n), d) IN <<n \div g, d \div g>>

\* PhysicalSize::to_logical(window.scale_factor()): physical pixels / scale factor
to_logical(size) == <<Frac(size[1], ScaleFactor), Frac(size[2], ScaleFactor)>>

\* f32 arithmetic on such fractions, without rounding: f * k, f + k, -f
FMul(f, k) == Frac(f[1] * k, f[2])
FAdd(f, k) == Frac(f[1] + k * f[2], f[2])
FNeg(f) == <<-f[1], f[2]>>

\* mutant: the y coordinate is not inverted
NormalizedMouse_NoFlip(position, size) ==
  LET normalized_x == Frac(position[1], size[1])
      normalized_y == Frac(position[2], size[2])
  IN  <<FAdd(FMul(normalized_x, 2), -1), FAdd(FMul(normalized_y, 2), -1)>>

\* CursorMoved: normalized_x = position.x / size.width, normalized_y likewise;
\* mouse = [normalized_x * 2. - 1., -normalized_y * 2. + 1.]
NormalizedMouse(position, size) ==
  LET normalized_x == Frac(position[1], size[1])
      normalized_y == Frac(position[2], size[2])
  IN  <<FAdd(FMul(normalized_x, 2), -1), FAdd(FMul(FNeg(normalized_y), 2), 1)>>

\* mutant: resize without the zero-dimension test
resize_Unchecked(config, window_size, new_size) ==
  <<new_size, to_logical(new_size), TRUE>>

\* Playground::resize: the new <<surface_config, uniforms.window_size, request_redraw>>
resize(config, window_size, new_size) ==
  IF new_size[1] > 0 /\ new_size[2] > 0
  THEN <<new_size, to_logical(new_size), TRUE>>
  ELSE <<config, window_size, FALSE>>

\* ------------------------------------------------------------------- Init
Init ==
  /\ pc = "start_read"
  /\ file \in [text : Texts, readable : BOOLEAN]
  /\ fs_event = NoEvent
  /\ watcher_log = << >>
  /\ gpu_error = NoError
  /\ queue = << >>
  /\ error_state = FALSE
  /\ render_pipeline = NoPipeline
  /\ frag_wgsl = NoPipeline
  /\ redraw = FALSE
  /\ inner_size = <<InitSize, InitSize>>
  /\ cursor = <<InitSize \div 2, InitSize \div 2>>
  /\ surface_config = <<InitSize, InitSize>>
  /\ uniforms = [mouse |-> << <<0, 1>>, <<0, 1>> >>, time |-> 0,
                 window_size |-> << <<0, 1>>, <<0, 1>> >>]
  /\ last_frame_time = 0
  /\ out = Effect("none", FALSE, FALSE, NoPipeline)

Running == pc # "exited" /\ pc # "returned"

\* ------------------------------------------------------------ environment
\* mutant: the closure matches every Modify(_) event
WatcherCallback_AnyModify(q, res) ==
  IF res \in {"ModifyName", "ModifyData"} THEN Append(q, "Reload") ELSE q

\* the closure given to notify::recommended_watcher in listen: the user events
\* queued after it ran with result res
WatcherCallback(q, res) ==
  IF res = "ModifyName" THEN Append(q, "Reload") ELSE q

\* what the closure prints when it runs with result res: nothing, the Err
\* result included
WatcherLog(res) == << >>

\* the editor writes the file (or the watcher fails): the operating system
\* reports res to the watcher thread
FileSaved(t, res) ==
  /\ Running
  /\ fs_event = NoEvent
  /\ file' = [text |-> t, readable |-> TRUE]
  /\ fs_event' = res
  /\ UNCHANGED <<gpu_error, watcher_log, cursor, pc, queue, error_state, render_pipeline,
                 frag_wgsl, redraw, inner_size, surface_config, uniforms, last_frame_time,
                 out>>

\* mutant: the watcher thread resumes rendering itself when it sees a rename
Watcher_ClearsFlag ==
  /\ Running
  /\ fs_event # NoEvent
  /\ WatcherCallback(queue, fs_event) # queue => Len(queue) < MaxPending
  /\ queue' = WatcherCallback(queue, fs_event)
  /\ error_state' = (error_state /\ fs_event # "ModifyName")
  /\ watcher_log' = watcher_log \o WatcherLog(fs_event)
  /\ fs_event' = NoEvent
  /\ UNCHANGED <<gpu_error, cursor, pc, file, render_pipeline, frag_wgsl, redraw,
                 inner_size, surface_config, uniforms, last_frame_time, out>>

\* the watcher thread runs the callback with the pending result
Watcher ==
  /\ Running
  /\ fs_event # NoEvent
  /\ WatcherCallback(queue, fs_event) # queue => Len(queue) < MaxPending
  /\ queue' = WatcherCallback(queue, fs_event)
  /\ watcher_log' = watcher_log \o WatcherLog(fs_event)
  /\ fs_event' = NoEvent
  /\ UNCHANGED <<gpu_error, cursor, pc, file, error_state, render_pipeline, frag_wgsl,
                 redraw, inner_size, surface_config, uniforms, last_frame_time, out>>

\* the file is locked, truncated or momentarily absent
FileBusy ==
  /\ Running
  /\ file.readable
  /\ file' = [file EXCEPT !.readable = FALSE]
  /\ UNCHANGED <<gpu_error, watcher_log, cursor, pc, fs_event, queue, error_state,
                 render_pipeline, frag_wgsl, redraw, inner_size, surface_config, uniforms,
                 last_frame_time, out>>

\* wgpu meets an error outside an error scope, of any kind: a validation error
\* with or without the fragment-shader label in its description, or another error
ErrorKinds == {<<"Validation", TRUE>>, <<"Validation", FALSE>>, <<"OutOfMemory", FALSE>>}

DeviceFault(error) ==
  /\ pc = "loop"
  /\ gpu_error = NoError
  /\ gpu_error' = error
  /\ UNCHANGED <<watcher_log, fs_event, cursor, pc, file, queue, error_state,
                 render_pipeline, frag_wgsl, redraw, inner_size, surface_config, uniforms,
                 last_frame_time, out>>

\* wgpu invokes the callback registered with device.on_uncaptured_error
ErrorCallback ==
  /\ Running
  /\ gpu_error # NoError
  /\ Len(queue) < MaxPending
  /\ queue' = on_uncaptured_error(queue, gpu_error)
  /\ gpu_error' = NoError
  /\ UNCHANGED <<watcher_log, fs_event, cursor, pc, file, error_state, render_pipeline,
                 frag_wgsl, redraw, inner_size, surface_config, uniforms, last_frame_time,
                 out>>

\* ---------------------------------------------------- create_pipeline steps
\* mutant: a failed read makes create_pipeline return Err, and the reload ends
ReadRetry_GivesUp ==
  /\ pc \in {"start_read", "reload_read"}
  /\ ~file.readable
  /\ pc' = IF pc = "start_read" THEN "returned" ELSE "loop"
  /\ out' = Effect("Reload", out.paused, FALSE, NoPipeline)
  /\ UNCHANGED <<gpu_error, watcher_log, cursor, file, fs_event, queue, error_state,
                 render_pipeline, frag_wgsl, redraw, inner_size, surface_config, uniforms,
                 last_frame_time>>

\* mutant: a failed read in a reload hands the Reload back to the queue and
\* returns to the event loop
ReadRetry_Yields ==
  /\ pc \in {"start_read", "reload_read"}
  /\ ~file.readable
  /\ pc' = IF pc = "reload_read" THEN "loop" ELSE pc
  /\ queue' = IF pc = "reload_read" THEN <<"Reload">> \o queue ELSE queue
  /\ out' = Effect("ReadRetry", out.paused, FALSE, NoPipeline)
  /\ UNCHANGED <<gpu_error, watcher_log, cursor, file, fs_event, error_state,
                 render_pipeline, frag_wgsl, redraw, inner_size, surface_config, uniforms,
                 last_frame_time>>

\* read_to_string fails: sleep 200 ms and loop
ReadRetry ==
  /\ pc \in {"start_read", "reload_read"}
  /\ ~file.readable
  /\ out' = Effect("ReadRetry", out.paused, FALSE, NoPipeline)
  /\ UNCHANGED <<gpu_error, watcher_log, cursor, pc, file, fs_event, queue, error_state,
                 render_pipeline, frag_wgsl, redraw, inner_size, surface_config, uniforms,
                 last_frame_time>>

\* read_to_string succeeds: break with the text
ReadOk ==
  /\ pc \in {"start_read", "reload_read"}
  /\ file.readable
  /\ frag_wgsl' = file.text
  /\ pc' = IF pc = "start_read" THEN "start_build" ELSE "reload_build"
  /\ out' = Effect("ReadOk", out.paused, FALSE, NoPipeline)
  /\ UNCHANGED <<gpu_error, watcher_log, cursor, file, fs_event, queue, error_state,
                 render_pipeline, redraw, inner_size, surface_config, uniforms,
                 last_frame_time>>

\* run: the initial create_pipeline returns; on Ok the loop starts
StartBuild ==
  /\ pc = "start_build"
  /\ LET result == create_pipeline(frag_wgsl) IN
       /\ queue' = RaiseAll(queue, BuildErrors(frag_wgsl))
       /\ IF result.ok
            THEN /\ render_pipeline' = result.pipeline
                 /\ pc' = "loop"
            ELSE /\ pc' = "returned"
                 /\ UNCHANGED render_pipeline
  /\ frag_wgsl' = NoPipeline
  /\ out' = Effect("StartBuild", FALSE, FALSE, NoPipeline)
  /\ UNCHANGED <<gpu_error, watcher_log, cursor, file, fs_event, error_state, redraw,
                 inner_size, surface_config, uniforms, last_frame_time>>

\* ------------------------------------------------------------ user events
\* mutant: the Reload handler without error_state = false
ReloadBegin_KeepsFlag ==
  /\ pc = "loop"
  /\ queue # << >> /\ Head(queue) = "Reload"
  /\ queue' = Tail(queue)
  /\ pc' = "reload_read"
  /\ out' = Effect("ReloadBegin", error_state, FALSE, NoPipeline)
  /\ UNCHANGED <<gpu_error, watcher_log, cursor, file, fs_event, error_state,
                 render_pipeline, frag_wgsl, redraw, inner_size, surface_config, uniforms,
                 last_frame_time>>

\* UserEvents::Reload: error_state = false; playground.reload() enters the read loop
ReloadBegin ==
  /\ pc = "loop"
  /\ queue # << >> /\ Head(queue) = "Reload"
  /\ queue' = Tail(queue)
  /\ error_state' = FALSE
  /\ pc' = "reload_read"
  /\ out' = Effect("ReloadBegin", error_state, FALSE, NoPipeline)
  /\ UNCHANGED <<gpu_error, watcher_log, cursor, file, fs_event, render_pipeline,
                 frag_wgsl, redraw, inner_size, surface_config, uniforms, last_frame_time>>

\* reload: recreate_pipeline finishes, then window.request_redraw()
ReloadBuild ==
  /\ pc = "reload_build"
  /\ queue' = RaiseAll(queue, BuildErrors(frag_wgsl))
  /\ render_pipeline' = recreate_pipeline(render_pipeline, create_pipeline(frag_wgsl))
  /\ redraw' = TRUE
  /\ frag_wgsl' = NoPipeline
  /\ pc' = "loop"
  /\ out' = Effect("Reload", out.paused, TRUE, NoPipeline)
  /\ UNCHANGED <<gpu_error, watcher_log, cursor, file, fs_event, error_state, inner_size,
                 surface_config, uniforms, last_frame_time>>

\* UserEvents::WGPUError
HandleWGPUError ==
  /\ pc = "loop"
  /\ queue # << >> /\ Head(queue) = "WGPUError"
  /\ queue' = Tail(queue)
  /\ error_state' = TRUE
  /\ out' = Effect("WGPUError", error_state, FALSE, NoPipeline)
  /\ UNCHANGED <<gpu_error, watcher_log, cursor, pc, file, fs_event, render_pipeline,
                 frag_wgsl, redraw, inner_size, surface_config, uniforms, last_frame_time>>

\* ----------------------------------------------------------- window events
\* mutant: the CloseRequested arm does not call exit
CloseRequested_Ignored ==
  /\ pc = "loop"
  /\ out' = Effect("CloseRequested", error_state, FALSE, NoPipeline)
  /\ UNCHANGED <<gpu_error, watcher_log, cursor, pc, file, fs_event, queue, error_state,
                 render_pipeline, frag_wgsl, redraw, inner_size, surface_config, uniforms,
                 last_frame_time>>

\* WindowEvent::CloseRequested: window_target.exit()
CloseRequested ==
  /\ pc = "loop"
  /\ pc' = "exited"
  /\ out' = Effect("CloseRequested", error_state, FALSE, NoPipeline)
  /\ UNCHANGED <<gpu_error, watcher_log, cursor, file, fs_event, queue, error_state,
                 render_pipeline, frag_wgsl, redraw, inner_size, surface_config, uniforms,
                 last_frame_time>>

\* mutant: a resize also resumes rendering
Resized_Resumes(new_size) ==
  /\ pc = "loop"
  /\ inner_size' = new_size
  /\ error_state' = FALSE
  /\ LET r == resize(surface_config, uniforms.window_size, new_size) IN
       /\ surface_config' = r[1]
       /\ uniforms' = [uniforms EXCEPT !.window_size = r[2]]
       /\ redraw' = (redraw \/ r[3])
       /\ out' = Effect("Resized", error_state, r[3], NoPipeline)
  /\ UNCHANGED <<gpu_error, watcher_log, cursor, pc, file, fs_event, queue,
                 render_pipeline, frag_wgsl, last_frame_time>>

\* WindowEvent::Resized(new_size): playground.resize(new_size)
Resized(new_size) ==
  /\ pc = "loop"
  /\ inner_size' = new_size
  /\ LET r == resize(surface_config, uniforms.window_size, new_size) IN
       /\ surface_config' = r[1]
       /\ uniforms' = [uniforms EXCEPT !.window_size = r[2]]
       /\ redraw' = (redraw \/ r[3])
       /\ out' = Effect("Resized", error_state, r[3], NoPipeline)
  /\ UNCHANGED <<gpu_error, watcher_log, cursor, pc, file, fs_event, queue, error_state,
                 render_pipeline, frag_wgsl, last_frame_time>>

\* WindowEvent::CursorMoved { position }: a position inside a window of positive size
CursorMoved(position) ==
  /\ pc = "loop"
  /\ inner_size[1] > 0 /\ inner_size[2] > 0
  /\ position[1] <= inner_size[1] /\ position[2] <= inner_size[2]
  /\ cursor' = position
  /\ uniforms' = [uniforms EXCEPT !.mouse = NormalizedMouse(position, inner_size)]
  /\ out' = Effect("CursorMoved", error_state, FALSE, NoPipeline)
  /\ UNCHANGED <<gpu_error, watcher_log, pc, file, fs_event, queue, error_state,
                 render_pipeline, frag_wgsl, redraw, inner_size, surface_config,
                 last_frame_time>>

\* mutant: uniforms.time is updated before the frame is acquired
RedrawSkipped_UpdatesTime ==
  /\ pc = "loop"
  /\ redraw
  /\ redraw' = FALSE
  /\ \E t \in ClockReads(0) : uniforms' = [uniforms EXCEPT !.time = t]
  /\ out' = Effect("RedrawRequested", error_state, FALSE, NoPipeline)
  /\ UNCHANGED <<gpu_error, watcher_log, cursor, pc, file, fs_event, queue, error_state,
                 render_pipeline, frag_wgsl, inner_size, surface_config, last_frame_time>>

\* WindowEvent::RedrawRequested, surface.get_current_texture() fails: return
RedrawSkipped ==
  /\ pc = "loop"
  /\ redraw
  /\ redraw' = FALSE
  /\ out' = Effect("RedrawRequested", error_state, FALSE, NoPipeline)
  /\ UNCHANGED <<gpu_error, watcher_log, cursor, pc, file, fs_event, queue, error_state,
                 render_pipeline, frag_wgsl, inner_size, surface_config, uniforms,
                 last_frame_time>>

\* WindowEvent::RedrawRequested, the frame is acquired: update time, upload the
\* uniforms, draw with playground.render_pipeline, submit and present.  Drawing
\* with an invalid pipeline raises a validation error in wgpu.
RedrawRequested ==
  /\ pc = "loop"
  /\ redraw
  /\ redraw' = FALSE
  /\ \E t \in ClockReads(0) : uniforms' = [uniforms EXCEPT !.time = t]
  /\ IF Valid(render_pipeline)
       THEN UNCHANGED queue
       ELSE /\ Len(queue) < MaxPending
            /\ queue' = on_uncaptured_error(queue, <<"Validation", FALSE>>)
  /\ out' = Effect("RedrawRequested", error_state, FALSE, render_pipeline)
  /\ UNCHANGED <<gpu_error, watcher_log, cursor, pc, file, fs_event, error_state,
                 render_pipeline, frag_wgsl, inner_size, surface_config, last_frame_time>>

\* mutant: AboutToWait without the error_state test
AboutToWait_AlwaysPaces ==
  /\ pc = "loop"
  /\ \E t \in ClockReads(last_frame_time + FrameTime) : last_frame_time' = t
  /\ redraw' = TRUE
  /\ out' = Effect("AboutToWait", error_state, TRUE, NoPipeline)
  /\ UNCHANGED <<gpu_error, watcher_log, cursor, pc, file, fs_event, queue, error_state,
                 render_pipeline, frag_wgsl, inner_size, surface_config, uniforms>>

\* Event::AboutToWait: unless error_state, pace the frame and request a redraw
AboutToWait ==
  /\ pc = "loop"
  /\ IF ~error_state
       THEN /\ \E t \in ClockReads(last_frame_time + FrameTime) : last_frame_time' = t
            /\ redraw' = TRUE
            /\ out' = Effect("AboutToWait", error_state, TRUE, NoPipeline)
       ELSE /\ UNCHANGED <<last_frame_time, redraw>>
            /\ out' = Effect("AboutToWait", error_state, FALSE, NoPipeline)
  /\ UNCHANGED <<gpu_error, watcher_log, cursor, pc, file, fs_event, queue, error_state,
                 render_pipeline, frag_wgsl, inner_size, surface_config, uniforms>>

\* what the window environment of Spec delivers: resizes to the initial size
\* and the cursor at the centre of the window (WinSpec delivers the rest)
CoreSizes == {<<InitSize, InitSize>>}
CorePositions == {<<InitSize \div 2, InitSize \div 2>>}

\* a step of the loop thread: the closure given to event_loop.run handles one
\* event, or a create_pipeline it called moves on
Handlers ==
  \/ ReadRetry
  \/ ReadOk
  \/ StartBuild
  \/ ReloadBegin
  \/ ReloadBuild
  \/ HandleWGPUError
  \/ CloseRequested
  \/ \E s \in CoreSizes : Resized(s)
  \/ \E p \in CorePositions : CursorMoved(p)
  \/ RedrawSkipped
  \/ RedrawRequested
  \/ AboutToWait

\* the arms of the closure: the handlers that start with an event
EventHandlers ==
  \/ ReloadBegin
  \/ HandleWGPUError
  \/ CloseRequested
  \/ \E s \in CoreSizes : Resized(s)
  \/ \E p \in CorePositions : CursorMoved(p)
  \/ RedrawSkipped
  \/ RedrawRequested
  \/ AboutToWait

Next ==
  \/ \E t \in Texts, res \in FsKinds : FileSaved(t, res)
  \/ Watcher
  \/ FileBusy
  \/ ReadRetry
  \/ ReadOk
  \/ StartBuild
  \/ ReloadBegin
  \/ ReloadBuild
  \/ HandleWGPUError
  \/ CloseRequested
  \/ \E s \in CoreSizes : Resized(s)
  \/ \E p \in CorePositions : CursorMoved(p)
  \/ RedrawSkipped
  \/ RedrawRequested
  \/ AboutToWait

Spec == Init /\ [][Next]_vars

\* the loop thread keeps running: a read loop iterates, a build finishes and a
\* queued user event is dispatched; the watcher thread delivers what it holds
LoopThread ==
  ReadRetry \/ ReadOk \/ StartBuild \/ ReloadBuild \/ ReloadBegin \/ HandleWGPUError

FairSpec == Spec /\ WF_vars(LoopThread) /\ WF_vars(Watcher)

\* ------------------------------------------------------- the edit scenario
\* Running with the valid shader A on disk; the editor saves the invalid X
\* (by rename), and once the pause is observed saves the corrected B.
ScenarioInit ==
  /\ pc = "loop"
  /\ file = [text |-> "A", readable |-> TRUE]
  /\ fs_event = NoEvent
  /\ watcher_log = << >>
  /\ gpu_error = NoError
  /\ queue = << >>
  /\ error_state = FALSE
  /\ render_pipeline = "A"
  /\ frag_wgsl = NoPipeline
  /\ redraw = FALSE
  /\ inner_size = <<InitSize, InitSize>>
  /\ cursor = <<InitSize \div 2, InitSize \div 2>>
  /\ surface_config = <<InitSize, InitSize>>
  /\ uniforms = [mouse |-> << <<0, 1>>, <<0, 1>> >>, time |-> 0,
                 window_size |-> << <<0, 1>>, <<0, 1>> >>]
  /\ last_frame_time = 0
  /\ out = Effect("StartBuild", FALSE, FALSE, NoPipeline)

ScenarioSaveInvalid == file.text = "A" /\ FileSaved("X", "ModifyName")

ScenarioSaveFixed == file.text = "X" /\ error_state /\ FileSaved("B", "ModifyName")

ScenarioNext ==
  \/ ScenarioSaveInvalid
  \/ ScenarioSaveFixed
  \/ Watcher
  \/ ReadOk
  \/ ReloadBegin
  \/ ReloadBuild
  \/ HandleWGPUError
  \/ \E s \in CoreSizes : Resized(s)
  \/ \E p \in CorePositions : CursorMoved(p)
  \/ RedrawSkipped
  \/ RedrawRequested
  \/ AboutToWait

ScenarioSpec ==
  ScenarioInit /\ [][ScenarioNext]_vars /\ WF_vars(LoopThread) /\ WF_vars(Watcher)

\* ----------------------------------------------------- the device's errors
\* the edit scenario, with wgpu reporting errors of every kind at any time
ErrorNext ==
  \/ ScenarioNext
  \/ \E error \in ErrorKinds : DeviceFault(error)
  \/ ErrorCallback

ErrorSpec == ScenarioInit /\ [][ErrorNext]_vars

\* ------------------------------------------------- the window environment
\* the program started on a readable file whose text never changes, under
\* every window size and the corner cursor positions
WinInit == Init /\ file.readable

WinSizes == Dims \X Dims
WinPositions == {p \in Dims \X Dims : p[1] \in {0, inner_size[1]} /\ p[2] \in {0, inner_size[2]}}

WinNext ==
  \/ ReadOk
  \/ StartBuild
  \/ HandleWGPUError
  \/ CloseRequested
  \/ \E s \in WinSizes : Resized(s)
  \/ \E p \in WinPositions : CursorMoved(p)
  \/ RedrawSkipped
  \/ RedrawRequested
  \/ AboutToWait

WinSpec == WinInit /\ [][WinNext]_vars

\* --------------------------------------------------------- the cursor alone
\* a running loop under every window size and every cursor position inside
\* the window
MouseSizes == (0..MaxMouse) \X (0..MaxMouse)
MousePositions == {p \in MouseSizes : p[1] <= inner_size[1] /\ p[2] <= inner_size[2]}

MouseNext ==
  \/ \E s \in MouseSizes : Resized(s)
  \/ \E p \in MousePositions : CursorMoved(p)

MouseSpec == ScenarioInit /\ [][MouseNext]_vars

TypeOK ==
  /\ pc \in {"start_read", "start_build", "loop", "reload_read", "reload_build",
             "exited", "returned"}
  /\ file \in [text : Texts, readable : BOOLEAN]
  /\ fs_event \in FsKinds \cup {NoEvent}
  /\ queue \in Seq(UserEvents)
  /\ error_state \in BOOLEAN
  /\ render_pipeline \in Texts \cup {NoPipeline}
  /\ redraw \in BOOLEAN
  /\ inner_size \in Nat \X Nat
  /\ cursor \in Nat \X Nat
  /\ gpu_error \in ErrorKinds \cup {NoError}
  /\ watcher_log = << >>

\* ------------------------------------------------------------------ claims
\* the state the loop thread owns: the four variables its handlers mutate, and
\* the rest of what it alone reads and writes
Owned == <<error_state, render_pipeline, uniforms, surface_config>>
LoopLocal == <<pc, redraw, frag_wgsl, last_frame_time, inner_size, cursor, out>>

Reading == {"start_read", "reload_read"}

\* C1: a reload whose shader text is invalid leaves the previously active
\* pipeline active (the handle the following frames draw with is the one from
\* before the reload).
C1_InvalidReloadKeepsPipeline ==
  [][(pc = "reload_build" /\ ~Valid(frag_wgsl) /\ pc' = "loop")
       => render_pipeline' = render_pipeline]_vars

\* C2: whenever a RedrawRequested is about to be handled, the active pipeline
\* is valid for drawing.
C2_PipelineValidAtRedraw ==
  (pc = "loop" /\ redraw) => Valid(render_pipeline)

\* C3: while error_state is set, the last handler neither requested a redraw
\* nor submitted a draw.
C3_NoRedrawWhilePaused ==
  error_state => (~out.request_redraw /\ out.draw = NoPipeline)

\* C4: when the handler of a Reload that began while Paused finishes, the
\* loop is Running, whatever text was built.
C4_ReloadLeavesRunning ==
  (out.handler = "Reload" /\ out.paused) => ~error_state

C4_Witness ==
  /\ out.handler = "Reload" /\ out.paused
  /\ ~Valid(render_pipeline)
  /\ ~error_state

\* C5 as stated: after a reload of an invalid text the loop becomes Paused,
\* unless a further Reload is handled first.
C5_InvalidReloadPauses ==
  (pc = "reload_build" /\ ~Valid(frag_wgsl)) ~> (error_state \/ pc = "reload_read")

\* C5 amended: ... unless a further Reload is handled or the loop is closed first.
C5_InvalidReloadPausesUnlessClosed ==
  (pc = "reload_build" /\ ~Valid(frag_wgsl))
     ~> (error_state \/ pc = "reload_read" \/ pc = "exited")

C5_Witness ==
  /\ out.handler = "WGPUError" /\ ~out.paused
  /\ error_state
  /\ render_pipeline = "X" /\ file.text = "X"
  /\ redraw

\* C6: in the edit scenario, once the pipeline built from the corrected text
\* is the active one the loop is Running, and it stays Running (it keeps
\* rendering with that pipeline).
C6_ScenarioResumes ==
  render_pipeline = "B" => ~error_state

\* C7 as stated: the watcher callback sends exactly one Reload for a rename
\* and for a modify event, and nothing for any other result.
C7_RenameOrModifyReloads ==
  [][(fs_event # NoEvent /\ fs_event' = NoEvent)
       => queue' = IF fs_event \in {"ModifyName", "ModifyData"}
                   THEN Append(queue, "Reload") ELSE queue]_vars

\* C7 amended: the watcher callback sends exactly one Reload for a rename
\* event (Modify(Name)), and nothing for any other result, a data modify included.
C7_RenameReloads ==
  [][(fs_event # NoEvent /\ fs_event' = NoEvent)
       => queue' = IF fs_event = "ModifyName"
                   THEN Append(queue, "Reload") ELSE queue]_vars

C7_Witness ==
  /\ fs_event = NoEvent
  /\ queue = <<"Reload", "Reload">>

\* C8: an initial build of an invalid shader never starts the event loop.
C8_InvalidStartNeverLoops ==
  [][(pc = "start_build" /\ ~Valid(frag_wgsl)) => pc' \in {"start_build", "returned"}]_vars

\* C9: a failed read only makes the builder retry (the handler stays in the
\* read loop, no error is raised, no pipeline is swapped); the loop leaves
\* with the text then on disk, the build returns the handle built from it,
\* and if the file stays readable from some point on the build terminates.
C9_ReadRetry ==
  /\ [][(pc \in Reading /\ ~file.readable)
          => /\ pc' = pc
             /\ render_pipeline' = render_pipeline
             /\ frag_wgsl' = frag_wgsl
             /\ queue' \in {queue, Append(queue, "Reload")}]_vars
  /\ [][(pc \in Reading /\ pc' \notin Reading) => frag_wgsl' = file.text]_vars
  /\ [][(pc \in {"start_build", "reload_build"} /\ pc' = "loop")
          => render_pipeline' = frag_wgsl]_vars
  /\ (<>[](file.readable)) => [](pc \in Reading => <>(pc = "loop"))

C9_Witness ==
  /\ pc = "reload_read"
  /\ out.handler = "ReadRetry"
  /\ file.readable

\* C10: a Resized event with a zero dimension leaves surface_config and
\* uniforms.window_size as they were, and one with two positive dimensions
\* sets surface_config to the new size, Running or Paused.
C10_Resize ==
  [][out'.handler = "Resized"
       => IF inner_size'[1] > 0 /\ inner_size'[2] > 0
          THEN surface_config' = inner_size'
          ELSE /\ surface_config' = surface_config
               /\ uniforms'.window_size = uniforms.window_size]_vars

C10_Witness ==
  /\ out.handler = "Resized" /\ out.paused
  /\ inner_size = <<0, 1>>
  /\ surface_config = <<1, 2>>
  /\ uniforms.window_size = to_logical(<<1, 2>>)

\* C11: a CursorMoved at (x, y) inside a window of positive size W x H stores
\* mouse = (2x/W - 1, -2y/H + 1): (0, 0) gives (-1, 1), (W, H) gives (1, -1),
\* the centre gives (0, 0), and both coordinates lie in [-1, 1].
C11_MouseNormalized ==
  [][out'.handler = "CursorMoved" =>
       LET x == cursor'[1]
           y == cursor'[2]
           W == inner_size[1]
           H == inner_size[2]
           mx == uniforms'.mouse[1]
           my == uniforms'.mouse[2]
       IN  /\ mx[2] > 0 /\ my[2] > 0
           /\ mx[1] * W = (2 * x - W) * mx[2]
           /\ my[1] * H = (H - 2 * y) * my[2]
           /\ -mx[2] <= mx[1] /\ mx[1] <= mx[2]
           /\ -my[2] <= my[1] /\ my[1] <= my[2]
           /\ (x = 0 /\ y = 0) => uniforms'.mouse = << <<-1, 1>>, <<1, 1>> >>
           /\ (x = W /\ y = H) => uniforms'.mouse = << <<1, 1>>, <<-1, 1>> >>
           /\ (2 * x = W /\ 2 * y = H) => uniforms'.mouse = << <<0, 1>>, <<0, 1>> >>]_vars

C11_Witness ==
  /\ out.handler = "CursorMoved"
  /\ inner_size = <<3, 4>>
  /\ cursor = <<1, 3>>
  /\ uniforms.mouse = << <<-1, 3>>, <<-1, 2>> >>

\* C12: every invocation of the uncaptured-error callback, of whatever kind
\* and with or without the fragment-shader label, appends exactly one
\* WGPUError to the queue (the errors wgpu reports on its own, each error of a
\* build, the error of a draw with an invalid pipeline), and handling a
\* WGPUError leaves error_state set, whether it was set before or not.
C12_ErrorCallbackPauses ==
  [][/\ (gpu_error # NoError /\ gpu_error' = NoError)
          => queue' = Append(queue, "WGPUError")
     /\ (pc = "reload_build" /\ pc' = "loop")
          => queue' = queue \o [i \in 1..Len(BuildErrors(frag_wgsl)) |-> "WGPUError"]
     /\ (redraw /\ ~redraw' /\ out'.draw # NoPipeline /\ ~Valid(out'.draw))
          => queue' = Append(queue, "WGPUError")
     /\ (pc = "loop" /\ queue # << >> /\ Head(queue) = "WGPUError" /\ queue' = Tail(queue))
          => (error_state' /\ out'.handler = "WGPUError" /\ out'.paused = error_state)]_vars

C12_Witness ==
  /\ out.handler = "WGPUError"
  /\ out.paused
  /\ error_state
  /\ render_pipeline = "A"
  /\ gpu_error = <<"OutOfMemory", FALSE>>
  /\ queue = <<"WGPUError">>

\* C13: error_state is clear until the loop starts and when it starts, and it
\* goes from set to clear only in the step that takes a Reload from the queue
\* and enters the reload; no window event and no WGPUError clears it.
C13_OnlyReloadClears ==
  /\ [](pc \in {"start_read", "start_build"} => ~error_state)
  /\ [][(pc = "start_build" /\ pc' = "loop") => ~error_state']_vars
  /\ [][(error_state /\ ~error_state')
          => /\ pc = "loop" /\ pc' = "reload_read"
             /\ queue # << >> /\ Head(queue) = "Reload" /\ queue' = Tail(queue)
             /\ out'.handler = "ReloadBegin"]_vars

C13_Witness ==
  /\ out.handler = "ReloadBegin"
  /\ out.paused
  /\ ~error_state
  /\ pc = "reload_read"
  /\ queue = <<"WGPUError">>

\* C14: when the watcher closure runs with an Err result it enqueues nothing
\* and prints a line about the error, and the closure keeps serving: a rename
\* delivered at any later time still enqueues one Reload.
C14_WatcherErrorLogged ==
  [][/\ (fs_event = "Err" /\ fs_event' = NoEvent)
          => (queue' = queue /\ Len(watcher_log') = Len(watcher_log) + 1)
     /\ (fs_event = "ModifyName" /\ fs_event' = NoEvent)
          => queue' = Append(queue, "Reload")]_vars

\* C15: an AboutToWait requests a redraw exactly when error_state is clear:
\* with the flag clear a RedrawRequested is pending afterwards, with the flag
\* set the handler requests none and leaves last_frame_time as it was.
C15_TickRedrawsIffRunning ==
  [][out'.handler = "AboutToWait" =>
       /\ out'.request_redraw = ~error_state
       /\ out'.paused = error_state
       /\ ~error_state => redraw'
       /\ error_state => (redraw' = redraw /\ last_frame_time' = last_frame_time)
       /\ error_state' = error_state]_vars

C15_Witness ==
  /\ out = Effect("AboutToWait", TRUE, FALSE, NoPipeline)
  /\ error_state
  /\ ~redraw
  /\ last_frame_time = 0

\* C16: a RedrawRequested whose frame could not be acquired submits no draw
\* and changes nothing but the pending redraw: uniforms (time included), the
\* queue, error_state, the pipeline and the surface configuration stay, the
\* loop goes on, and the next AboutToWait with the flag clear requests a
\* redraw again.
C16_SkippedFrameNoEffect ==
  /\ [][(redraw /\ ~redraw' /\ out'.handler = "RedrawRequested" /\ out'.draw = NoPipeline)
          => /\ uniforms' = uniforms
             /\ queue' = queue
             /\ error_state' = error_state
             /\ render_pipeline' = render_pipeline
             /\ surface_config' = surface_config
             /\ last_frame_time' = last_frame_time
             /\ pc' = "loop"]_vars
  /\ [][(out.handler = "RedrawRequested" /\ out.draw = NoPipeline /\ ~error_state
           /\ out'.handler = "AboutToWait")
          => (redraw' /\ out'.request_redraw)]_vars

C16_Witness ==
  /\ out = Effect("RedrawRequested", FALSE, FALSE, NoPipeline)
  /\ pc = "loop"
  /\ ~redraw
  /\ uniforms.time = 0
  /\ last_frame_time = 1

\* C17: handling CloseRequested, with error_state set or clear, ends the
\* loop; from then on no handler runs, whatever is still queued or pending,
\* and the pipeline, the uniforms and error_state never change again.
C17_CloseTerminates ==
  /\ [][(pc = "loop" /\ out'.handler = "CloseRequested")
          => (pc' = "exited" /\ out'.paused = error_state)]_vars
  /\ [][pc = "exited"
          => (pc' = "exited" /\ render_pipeline' = render_pipeline
              /\ uniforms' = uniforms /\ error_state' = error_state)]_vars
  /\ [](pc = "exited" => ~ENABLED Handlers)

C17_Witness ==
  /\ pc = "exited"
  /\ out = Effect("CloseRequested", TRUE, FALSE, NoPipeline)
  /\ error_state
  /\ redraw
  /\ queue = <<"WGPUError", "Reload">>

\* C18: a run of the watcher closure or of the uncaptured-error callback
\* leaves error_state, the pipeline, the uniforms and the surface
\* configuration alone and does nothing to the loop but append its event, the
\* event depending on the closure's argument only; every step that changes
\* one of the four is a step of the loop thread, which takes at most one
\* event from the queue.
C18_LoopOwnsState ==
  /\ [][(fs_event # NoEvent /\ fs_event' = NoEvent)
          => /\ Owned' = Owned /\ LoopLocal' = LoopLocal
             /\ queue' = IF fs_event = "ModifyName" THEN Append(queue, "Reload") ELSE queue]_vars
  /\ [][(gpu_error # NoError /\ gpu_error' = NoError)
          => /\ Owned' = Owned /\ LoopLocal' = LoopLocal
             /\ queue' = Append(queue, "WGPUError")]_vars
  /\ [][Owned' # Owned
          => /\ Handlers
             /\ fs_event' = fs_event /\ gpu_error' = gpu_error /\ file' = file
             /\ Len(queue') >= Len(queue) - 1]_vars

C18_Witness ==
  /\ error_state
  /\ render_pipeline = "X"
  /\ queue = <<"WGPUError", "Reload">>
  /\ fs_event = NoEvent
  /\ gpu_error = <<"Validation", TRUE>>
  /\ file.text = "B"

\* C19: no WGPUError that predates the active pipeline pauses it: whenever
\* the loop waits for events with error_state set and the queue empty, the
\* active pipeline is one that raises errors.
C19_NoStaleErrorPause ==
  (pc = "loop" /\ error_state /\ queue = << >>) => ~Valid(render_pipeline)

\* C20: from the step that takes a Reload to the end of its build the loop
\* thread does nothing else: every step is a read retry, the read or the
\* build, nothing is taken from the queue, and until the build no owned
\* variable, pending redraw or frame timestamp changes; while the file is
\* unreadable no handler of a window event, WGPUError, Reload or tick can
\* run; user events leave the queue one at a time from its head, in the
\* loop.
C20_ReloadRunsToCompletion ==
  /\ [][(pc = "reload_read" \/ pc = "reload_build")
          => /\ out'.handler \in {"ReloadBegin", "ReadRetry", "ReadOk", "Reload"}
             /\ pc = "reload_read" => pc' \in {"reload_read", "reload_build"}
             /\ pc = "reload_build" => pc' \in {"reload_build", "loop"}
             /\ Len(queue') >= Len(queue)
             /\ SubSeq(queue', 1, Len(queue)) = queue
             /\ (pc' # "loop")
                  => (Owned' = Owned /\ redraw' = redraw /\ cursor' = cursor
                      /\ inner_size' = inner_size /\ last_frame_time' = last_frame_time)]_vars
  /\ [](pc = "reload_read" => ~ENABLED EventHandlers)
  /\ [][Len(queue') < Len(queue) => (pc = "loop" /\ queue' = Tail(queue))]_vars

C20_Witness ==
  /\ pc = "reload_read"
  /\ out.handler = "ReadRetry"
  /\ ~file.readable
  /\ redraw
  /\ queue = <<"WGPUError", "Reload">>
====
